---- MODULE Spec2Model ----
(***************************************************************************)
(* A model of scraper/scrape_concorrencia.py: the table normalizer         *)
(* (parse_html_table), the title reconciliation (prefix_titles_if_needed,  *)
(* sanitize_title), the section scan and follow-button expansion           *)
(* (collect_blocks_from_soup, collect_from_detail_page) and the change     *)
(* detection of main (json_hash, the JSON file, the Excel models).         *)
(*                                                                         *)
(* Text is a sequence of one-character strings.  An optional value (None   *)
(* in the Python code) is the empty sequence, a present value x is <<x>>.  *)
(***************************************************************************)
EXTENDS Integers, Sequences, FiniteSets, TLC

VARIABLES
    \* parse_html_table
    table_tag, columns, rows, tpc,
    \* prefix_titles_if_needed
    parent_title, blocks, out, out2, rpc,
    \* collect_blocks_from_soup and collect_from_detail_page
    soup, base_url, pc, i, titulo, found_table, button_link, resp, deep_blocks,
    results, origin, failed,
    \* main
    run, now, file, old_payload, payload, old_hash, new_hash, regen, excel

tableVars == <<table_tag, columns, rows, tpc>>
titleVars == <<parent_title, blocks, out, out2, rpc>>
inputVars == <<soup, base_url>>
localVars == <<titulo, found_table, button_link, resp, deep_blocks>>
collectVars == <<inputVars, i, localVars, results, origin, failed>>
mainVars == <<run, now, file, old_payload, payload, old_hash, new_hash, regen, excel>>
vars == <<tableVars, titleVars, pc, collectVars, mainVars>>

----------------------------------------------------------------------------
(* Bounds of the model.                                                    *)

\* rows (<tr>) in the body of a raw table
MaxRows == 2
\* characters in a raw block title
MaxLen == 3
\* characters in a parent title
MaxParentLen == 2
\* sibling nodes in a document given to collect_blocks_from_soup alone
MaxNodes == 3
\* sections in the source page of a whole run
MaxSections == 2
\* runs of main
MaxRuns == 2
\* clock ticks in a minute
TicksPerMinute == 2

----------------------------------------------------------------------------
(* Text: re.sub(r"\s+", " ", ...), str.strip, str.rstrip, str.lower,       *)
(* the `in` operator on strings.                                           *)

Whitespace == {" ", "\t"}

RECURSIVE LStrip(_)
LStrip(s) ==
    IF s # <<>> /\ Head(s) \in Whitespace THEN LStrip(Tail(s)) ELSE s

RECURSIVE RStripChars(_, _)
RStripChars(s, chars) ==
    IF s # <<>> /\ s[Len(s)] \in chars
    THEN RStripChars(SubSeq(s, 1, Len(s) - 1), chars)
    ELSE s

Strip(s) == RStripChars(LStrip(s), Whitespace)

\* re.sub(r"\s+", " ", s): every maximal run of whitespace becomes one space
RECURSIVE CollapseWs(_)
CollapseWs(s) ==
    IF s = <<>> THEN <<>>
    ELSE IF Head(s) \in Whitespace
         THEN <<" ">> \o CollapseWs(LStrip(Tail(s)))
         ELSE <<Head(s)>> \o CollapseWs(Tail(s))

UpperCase == <<"A", "B", "H", "P", "T", "V", "X", "Z">>
LowerCase == <<"a", "b", "h", "p", "t", "v", "x", "z">>

LowerChar(c) ==
    IF \E k \in 1..Len(UpperCase) : UpperCase[k] = c
    THEN LowerCase[CHOOSE k \in 1..Len(UpperCase) : UpperCase[k] = c]
    ELSE c

Lower(s) == [k \in 1..Len(s) |-> LowerChar(s[k])]

\* Python's `a in b` on strings
Contains(b, a) ==
    \E k \in 0..(Len(b) - Len(a)) : SubSeq(b, k + 1, k + Len(a)) = a

sanitize_title(text) ==
    RStripChars(CollapseWs(Strip(text)), {" ", "."})

\* " ".join(el.get_text(separator=" ", strip=True).split()) on the element's text
text_of(raw) == Strip(CollapseWs(raw))

----------------------------------------------------------------------------
(* parse_html_table.  A raw table is                                        *)
(*   [thead : <<>> or <<tr>>, tbody : BOOLEAN, trs : sequence of tr]        *)
(* where a tr is a sequence of cells [kind : "th" or "td", text : Text];    *)
(* trs are the rows of <tbody> when tbody is TRUE and the rows directly     *)
(* under <table> otherwise.                                                 *)

Th(t) == [kind |-> "th", text |-> t]
Td(t) == [kind |-> "td", text |-> t]

HasTh(tr) == \E k \in 1..Len(tr) : tr[k].kind = "th"
HasTd(tr) == \E k \in 1..Len(tr) : tr[k].kind = "td"

SelectTh(tr) == SelectSeq(tr, LAMBDA c : c.kind = "th")

Texts(cells) == [k \in 1..Len(cells) |-> text_of(cells[k].text)]

Texts2(trs) == [k \in 1..Len(trs) |-> Texts(trs[k])]

\* table_tag.find_all("tr") in document order
AllTrs(t) == t.thead \o t.trs

\* lines 70-80: the header
HeaderColumns(t) ==
    IF t.thead # <<>>
    THEN Texts(t.thead[1])
    ELSE IF AllTrs(t) # <<>> /\ SelectTh(AllTrs(t)[1]) # <<>>
         THEN Texts(SelectTh(AllTrs(t)[1]))
         ELSE <<>>

\* line 83-84: tbody = table_tag.find("tbody") or table_tag; tbody.find_all("tr")
BodyTrs(t) == IF t.tbody THEN t.trs ELSE AllTrs(t)

\* RowLoop without the `continue` of line 94: the promoted row is appended too
RECURSIVE RowLoopKeepsPromoted(_, _, _, _)
RowLoopKeepsPromoted(trs, k, cols, rws) ==
    IF k > Len(trs) THEN [columns |-> cols, rows |-> rws]
    ELSE LET tr == trs[k] IN
         IF HasTh(tr) /\ ~HasTd(tr) THEN RowLoopKeepsPromoted(trs, k + 1, cols, rws)
         ELSE IF tr = <<>> THEN RowLoopKeepsPromoted(trs, k + 1, cols, rws)
         ELSE IF cols = <<>> /\ tr = trs[1]
              THEN RowLoopKeepsPromoted(trs, k + 1, Texts(tr), Append(rws, Texts(tr)))
              ELSE RowLoopKeepsPromoted(trs, k + 1, cols, Append(rws, Texts(tr)))

\* lines 85-95: the loop over trs, from row k on, with the columns and rows so far
RECURSIVE RowLoop(_, _, _, _)
RowLoop(trs, k, cols, rws) ==
    IF k > Len(trs) THEN [columns |-> cols, rows |-> rws]
    ELSE LET tr == trs[k] IN
         IF HasTh(tr) /\ ~HasTd(tr) THEN RowLoop(trs, k + 1, cols, rws)
         ELSE IF tr = <<>> THEN RowLoop(trs, k + 1, cols, rws)
         ELSE IF cols = <<>> /\ tr = trs[1]
              THEN RowLoop(trs, k + 1, Texts(tr), rws)
              ELSE RowLoop(trs, k + 1, cols, Append(rws, Texts(tr)))

Digits == <<"1", "2", "3", "4", "5", "6", "7", "8", "9">>

ColName(n) == <<"C", "o", "l", Digits[n]>>

RECURSIVE MaxRowLen(_)
MaxRowLen(rws) ==
    IF rws = <<>> THEN 0
    ELSE LET m == MaxRowLen(Tail(rws)) IN
         IF Len(Head(rws)) > m THEN Len(Head(rws)) ELSE m

\* lines 97-99
Synthesize(r) ==
    IF r.columns = <<>> /\ r.rows # <<>>
    THEN [r EXCEPT !.columns = [n \in 1..MaxRowLen(r.rows) |-> ColName(n)]]
    ELSE r

parse_html_table(t) ==
    Synthesize(RowLoop(BodyTrs(t), 1, HeaderColumns(t), <<>>))

----------------------------------------------------------------------------
(* The normalizer applied to every raw table of a bounded family.          *)

BoundedSeq(S, n) == UNION {[1..k -> S] : k \in 0..n}

CellA == <<"A">>
CellASpace == <<"A", " ">>
CellB == <<"B">>
CellCol1 == <<"C", "o", "l", "1">>

RowSet ==
    { <<>>,
      <<Td(CellA)>>, <<Td(CellB)>>, <<Td(CellASpace)>>, <<Td(CellCol1)>>,
      <<Td(CellA), Td(CellB)>>,
      <<Th(CellA)>>, <<Th(CellA), Th(CellB)>>, <<Th(CellA), Td(CellB)>> }

TheadSet ==
    { <<>>,
      << <<Th(CellA)>> >>, << <<Td(CellA)>> >>,
      << <<Th(CellA), Th(CellB)>> >>, << <<Td(CellA), Td(CellB)>> >> }

RawTables ==
    [thead : TheadSet, tbody : BOOLEAN, trs : BoundedSeq(RowSet, MaxRows)]

NoTable == [thead |-> <<>>, tbody |-> FALSE, trs |-> <<>>]

TableIdle ==
    /\ table_tag = NoTable
    /\ columns = <<>>
    /\ rows = <<>>
    /\ tpc = "idle"

InitTable ==
    /\ table_tag \in RawTables
    /\ columns = <<>>
    /\ rows = <<>>
    /\ tpc = "input"

ParseTable ==
    /\ tpc = "input"
    /\ LET r == parse_html_table(table_tag) IN
         /\ columns' = r.columns
         /\ rows' = r.rows
    /\ tpc' = "parsed"
    /\ UNCHANGED table_tag

----------------------------------------------------------------------------
(* prefix_titles_if_needed.  A block is [titulo, columns, rows].           *)

\* the em dash (U+2014), one character
EmDash == "--"

Separator == <<" ", EmDash, " ">>

\* lines 298-301, one block; pt is parent_title lowered
PrefixTitleCaseSensitive(parent, pt, own) ==
    LET t0 == IF own # <<>> THEN own ELSE parent
        t1 == IF pt # <<>> /\ ~Contains(t0, pt)
              THEN parent \o Separator \o t0
              ELSE t0
    IN  sanitize_title(t1)

PrefixTitle(parent, pt, own) ==
    LET t0 == IF own # <<>> THEN own ELSE parent
        t1 == IF pt # <<>> /\ ~Contains(Lower(t0), pt)
              THEN parent \o Separator \o t0
              ELSE t0
    IN  sanitize_title(t1)

prefix_titles_if_needed(parent, bs) ==
    [k \in 1..Len(bs) |->
        [titulo |-> PrefixTitle(parent, Lower(parent), bs[k].titulo),
         columns |-> bs[k].columns,
         rows |-> bs[k].rows]]

TitleChars == {"a", "A", " ", "."}

RawTitles == BoundedSeq(TitleChars, MaxLen)

\* the titles collect_blocks_from_soup passes as parent_title (lines 241-243)
ParentTitles ==
    {sanitize_title(text_of(s)) : s \in BoundedSeq(TitleChars, MaxParentLen)}
        \ {<<>>}

Blk(t) == [titulo |-> t, columns |-> <<CellA>>, rows |-> << <<CellB>> >>]

BlockLists ==
    {<<Blk(t)>> : t \in RawTitles} \cup {<<Blk(<<>>), Blk(t)>> : t \in RawTitles}

TitleIdle ==
    /\ parent_title = <<>>
    /\ blocks = <<>>
    /\ out = <<>>
    /\ out2 = <<>>
    /\ rpc = "idle"

InitTitle ==
    /\ parent_title \in ParentTitles
    /\ blocks \in BlockLists
    /\ out = <<>>
    /\ out2 = <<>>
    /\ rpc = "input"

Reconcile ==
    /\ rpc = "input"
    /\ out' = prefix_titles_if_needed(parent_title, blocks)
    /\ rpc' = "once"
    /\ UNCHANGED <<parent_title, blocks, out2>>

ReconcileAgain ==
    /\ rpc = "once"
    /\ out2' = prefix_titles_if_needed(parent_title, out)
    /\ rpc' = "twice"
    /\ UNCHANGED <<parent_title, blocks, out>>

----------------------------------------------------------------------------
(* Documents.  A parsed page is the sequence of sibling nodes that holds   *)
(* its headings; a node is                                                 *)
(*   [tag, text, table, links, attrs]                                      *)
(* tag: "h1", "h2", "h3", "table", "div", "a" or "#text" (a                *)
(* NavigableString); text: the text of a heading; table: the node itself   *)
(* for a <table>, the first <table> nested in it for a wrapper; links: the *)
(* <a> elements nested in the node, in document order; attrs: the          *)
(* attributes of the node when it is an <a> itself.                        *)
(* An anchor is [href : <<>> or <<[host, path]>>, text, class, role].      *)

Heading(tag, text) ==
    [tag |-> tag, text |-> text, table |-> <<>>, links |-> <<>>, attrs |-> <<>>]
TableNode(t) ==
    [tag |-> "table", text |-> <<>>, table |-> <<t>>, links |-> <<>>, attrs |-> <<>>]
Div(tbl, links) ==
    [tag |-> "div", text |-> <<>>, table |-> tbl, links |-> links, attrs |-> <<>>]
AnchorNode(a) ==
    [tag |-> "a", text |-> <<>>, table |-> <<>>, links |-> <<>>, attrs |-> <<a>>]
TextNode ==
    [tag |-> "#text", text |-> <<>>, table |-> <<>>, links |-> <<>>, attrs |-> <<>>]

IsTag(n) == n.tag # "#text"

\* line 110: re.search(r"(confira|ver|veja|acesse|consulte)", txt)
Verbs ==
    { <<"c", "o", "n", "f", "i", "r", "a">>, <<"v", "e", "r">>,
      <<"v", "e", "j", "a">>, <<"a", "c", "e", "s", "s", "e">>,
      <<"c", "o", "n", "s", "u", "l", "t", "e">> }

\* line 113
ButtonClasses ==
    { <<"b", "t", "n">>, <<"b", "u", "t", "t", "o", "n">>,
      <<"w", "p", "-", "b", "l", "o", "c", "k", "-", "b", "u", "t", "t", "o", "n",
        "_", "_", "l", "i", "n", "k">> }

\* a is the anchor's attributes; line 107 (a.name != "a") holds of every anchor
is_button_like(a) ==
    \/ \E v \in Verbs : Contains(Lower(text_of(a.text)), v)
    \/ \E c \in ButtonClasses : Contains(Lower(a.class), c)
    \/ Lower(a.role) = <<"b", "u", "t", "t", "o", "n">>

\* urljoin(base_url, href): a relative reference takes the base's host
resolve_url(href, base) ==
    IF href.host = "" THEN [host |-> base.host, path |-> href.path] ELSE href

\* lines 262-265: the first button-like <a href> nested in the node, resolved
RECURSIVE FirstButton(_, _)
FirstButton(links, base) ==
    IF links = <<>> THEN <<>>
    ELSE IF Head(links).href # <<>> /\ is_button_like(Head(links))
         THEN <<resolve_url(Head(links).href[1], base)>>
         ELSE FirstButton(Tail(links), base)

\* lines 246-269: the walk over the siblings after a heading, from node k on
RECURSIVE ScanLoop(_, _, _, _, _)
ScanLoop(nodes, k, ft, bl, base) ==
    IF k > Len(nodes) \/ nodes[k].tag \in {"h2", "h3"}
    THEN [found_table |-> ft, button_link |-> bl]
    ELSE IF ~IsTag(nodes[k]) THEN ScanLoop(nodes, k + 1, ft, bl, base)
    ELSE LET n == nodes[k]
             ft2 == IF n.tag = "table" THEN n.table
                    ELSE IF n.table # <<>> /\ ft = <<>> THEN n.table ELSE ft
             b == FirstButton(n.links, base)
             bl2 == IF b # <<>> THEN b ELSE bl
         IN  ScanLoop(nodes, k + 1, ft2, bl2, base)

\* soup.find_all(tags): the positions of the headings, in document order
HeadingPositions(nodes, tags) ==
    SelectSeq([k \in 1..Len(nodes) |-> k], LAMBDA k : nodes[k].tag \in tags)

\* lines 283-285 and 335-337: the block of a table, when it has rows
LocalBlocks(title, tbl) ==
    LET r == parse_html_table(tbl) IN
    IF r.rows # <<>>
    THEN <<[titulo |-> title, columns |-> r.columns, rows |-> r.rows]>>
    ELSE <<>>

----------------------------------------------------------------------------
(* collect_from_detail_page.  The response to the GET is FetchError (any   *)
(* exception inside the try: connection, status, parse) or the page.       *)

FetchError == <<Heading("error", <<>>)>>

\* lines 319-332: the first table after heading position p, before the next heading
RECURSIVE DetailFind(_, _)
DetailFind(nodes, k) ==
    IF k > Len(nodes) \/ nodes[k].tag \in {"h1", "h2", "h3"} THEN <<>>
    ELSE IF IsTag(nodes[k]) /\ nodes[k].table # <<>> THEN nodes[k].table
    ELSE DetailFind(nodes, k + 1)

\* lines 315-337: the blocks found under the headings hs
RECURSIVE DetailByHeadings(_, _)
DetailByHeadings(nodes, hs) ==
    IF hs = <<>> THEN <<>>
    ELSE LET found == DetailFind(nodes, Head(hs) + 1)
             t == sanitize_title(text_of(nodes[Head(hs)].text))
         IN  (IF found # <<>> THEN LocalBlocks(t, found[1]) ELSE <<>>)
                 \o DetailByHeadings(nodes, Tail(hs))

\* soup.find_all("table")
RECURSIVE AllTables(_)
AllTables(nodes) ==
    IF nodes = <<>> THEN <<>>
    ELSE (IF IsTag(Head(nodes)) THEN Head(nodes).table ELSE <<>>)
             \o AllTables(Tail(nodes))

\* lines 351-356: tables k.. of all_tables, titled "{base_title or 'Tabela'} {i}"
RECURSIVE DetailByOrder(_, _, _)
DetailByOrder(tables, k, base) ==
    IF k > Len(tables) THEN <<>>
    ELSE LocalBlocks(base \o <<" ", Digits[k]>>, tables[k])
             \o DetailByOrder(tables, k + 1, base)

Tabela == <<"T", "a", "b", "e", "l", "a">>

\* lines 312-359 on a fetched page
DetailBlocks(page) ==
    LET byHeadings ==
            DetailByHeadings(page, HeadingPositions(page, {"h1", "h2", "h3"}))
        h1s == HeadingPositions(page, {"h1"})
        base_title ==
            IF h1s # <<>> THEN sanitize_title(text_of(page[h1s[1]].text)) ELSE <<>>
    IN  IF byHeadings # <<>> THEN byHeadings
        ELSE DetailByOrder(AllTables(page), 1,
                           IF base_title # <<>> THEN base_title ELSE Tabela)

\* collect_from_detail_page without the try/except of lines 309 and 361
collect_from_detail_page_raises(response) ==
    IF response = FetchError
    THEN [raised |-> TRUE, blocks |-> <<>>]
    ELSE [raised |-> FALSE, blocks |-> DetailBlocks(response)]

\* raised: an exception leaves the function; blocks: what it returns
collect_from_detail_page(response) ==
    IF response = FetchError
    THEN [raised |-> FALSE, blocks |-> <<>>]
    ELSE [raised |-> FALSE, blocks |-> DetailBlocks(response)]

----------------------------------------------------------------------------
(* The pages of the model.                                                 *)

TabA == [thead |-> << <<Th(CellA)>> >>, tbody |-> TRUE, trs |-> << <<Td(CellB)>> >>]
TabB == [thead |-> <<>>, tbody |-> FALSE, trs |-> << <<Td(CellB)>>, <<Td(CellA)>> >>]
TabHeaderOnly == [thead |-> << <<Th(CellA)>> >>, tbody |-> TRUE, trs |-> <<>>]

Href(host, path) == <<[host |-> host, path |-> path]>>

BtnClass ==
    [href |-> Href("", "/p1"), text |-> <<"x">>, class |-> <<"B", "t", "n">>,
     role |-> <<>>]
BtnVerb ==
    [href |-> Href("ext", "/p2"), text |-> <<"V", "e", "r">>, class |-> <<>>,
     role |-> <<>>]
BtnRole ==
    [href |-> Href("", "/p3"), text |-> <<"x">>, class |-> <<>>,
     role |-> <<"b", "u", "t", "t", "o", "n">>]
PlainLink ==
    [href |-> Href("", "/p4"), text |-> <<"x">>, class |-> <<>>, role |-> <<>>]
VerbNoHref ==
    [href |-> <<>>, text |-> <<"v", "e", "r">>, class |-> <<>>, role |-> <<>>]

TitleH == <<"H", ".">>
TitleP == <<"P">>
TitleBlank == <<" ">>

NodeSet ==
    { Heading("h2", TitleH), Heading("h3", TitleP), Heading("h2", TitleBlank),
      TableNode(TabA), TableNode(TabB), TableNode(TabHeaderOnly),
      Div(<<TabA>>, <<>>),
      Div(<<>>, <<BtnClass>>), Div(<<>>, <<VerbNoHref, PlainLink, BtnVerb>>),
      AnchorNode(BtnRole), TextNode }

CollectDocs == BoundedSeq(NodeSet, MaxNodes)

SectionSet ==
    { <<Heading("h2", TitleH), TableNode(TabA)>>,
      <<Heading("h2", TitleH), Div(<<TabB>>, <<BtnClass>>)>>,
      <<Heading("h3", TitleP), TextNode, TableNode(TabB)>> }

RECURSIVE Flatten(_)
Flatten(ss) == IF ss = <<>> THEN <<>> ELSE Head(ss) \o Flatten(Tail(ss))

RunDocs == {Flatten(ss) : ss \in BoundedSeq(SectionSet, MaxSections)}

\* the detail pages a button may lead to
DetailPages ==
    { <<Heading("h2", <<"X">>), TableNode(TabA),
        Heading("h3", <<"h", " ", "Z">>), Div(<<TabB>>, <<>>)>>,
      <<TableNode(TabHeaderOnly), TextNode, Div(<<TabA>>, <<>>)>>,
      <<TableNode(TabB), Heading("h1", <<"Z", " ">>)>>,
      <<Heading("h2", <<"X">>), AnchorNode(PlainLink)>> }

Responses == {FetchError} \cup DetailPages

----------------------------------------------------------------------------
(* collect_blocks_from_soup, one heading at a time.                        *)
(*   pc = "scan": at the top of the loop over headings, i the next one     *)
(*   pc = "emit": heading i has a title and a table (line 274)             *)
(*   pc = "collected": the function has returned results                   *)
(* origin[k] is the heading whose section put results[k] there; failed is  *)
(* the set of headings whose detail page failed (the message of line 362). *)

Headings == HeadingPositions(soup, {"h2", "h3"})

NoLocals ==
    /\ titulo = <<>>
    /\ found_table = <<>>
    /\ button_link = <<>>
    /\ resp = <<>>
    /\ deep_blocks = <<>>

Repeat(x, n) == [k \in 1..n |-> x]

\* lines 240-272
ScanHeading ==
    /\ pc = "scan"
    /\ i <= Len(Headings)
    /\ LET p == Headings[i]
           t == sanitize_title(text_of(soup[p].text))
           sc == ScanLoop(soup, p + 1, <<>>, <<>>, base_url)
       IN  /\ titulo' = t
           /\ found_table' = IF t = <<>> THEN <<>> ELSE sc.found_table
           /\ button_link' = IF t = <<>> THEN <<>> ELSE sc.button_link
           /\ IF t = <<>> \/ sc.found_table = <<>>
              THEN pc' = "scan" /\ i' = i + 1
              ELSE pc' = "emit" /\ i' = i
    /\ resp' = <<>>
    /\ deep_blocks' = <<>>
    /\ UNCHANGED <<inputVars, results, origin, failed>>

\* FollowButton without the `continue` of line 280: the local table follows
\* the detail blocks
FollowButtonKeepsLocal ==
    /\ pc = "emit"
    /\ button_link # <<>>
    /\ \E response \in Responses :
          LET r == collect_from_detail_page(response)
              added == (IF r.blocks # <<>>
                        THEN prefix_titles_if_needed(titulo, r.blocks)
                        ELSE <<>>) \o LocalBlocks(titulo, found_table[1])
          IN  /\ resp' = <<response>>
              /\ failed' = IF response = FetchError THEN failed \cup {i} ELSE failed
              /\ IF r.raised
                 THEN /\ pc' = "aborted"
                      /\ UNCHANGED <<i, deep_blocks, results, origin>>
                 ELSE /\ deep_blocks' = r.blocks
                      /\ results' = results \o added
                      /\ origin' = origin \o Repeat(i, Len(added))
                      /\ i' = i + 1
                      /\ pc' = "scan"
    /\ UNCHANGED <<inputVars, titulo, found_table, button_link>>

\* lines 274-285 with a button: the detail page is fetched
FollowButton ==
    /\ pc = "emit"
    /\ button_link # <<>>
    /\ \E response \in Responses :
          LET r == collect_from_detail_page(response)
              added == IF r.blocks # <<>>
                       THEN prefix_titles_if_needed(titulo, r.blocks)
                       ELSE LocalBlocks(titulo, found_table[1])
          IN  /\ resp' = <<response>>
              /\ failed' = IF response = FetchError THEN failed \cup {i} ELSE failed
              /\ IF r.raised
                 THEN /\ pc' = "aborted"
                      /\ UNCHANGED <<i, deep_blocks, results, origin>>
                 ELSE /\ deep_blocks' = r.blocks
                      /\ results' = results \o added
                      /\ origin' = origin \o Repeat(i, Len(added))
                      /\ i' = i + 1
                      /\ pc' = "scan"
    /\ UNCHANGED <<inputVars, titulo, found_table, button_link>>

\* lines 274-285 without a button
UseLocal ==
    /\ pc = "emit"
    /\ button_link = <<>>
    /\ LET added == LocalBlocks(titulo, found_table[1])
       IN  /\ results' = results \o added
           /\ origin' = origin \o Repeat(i, Len(added))
    /\ i' = i + 1
    /\ pc' = "scan"
    /\ UNCHANGED <<inputVars, localVars, failed>>

\* line 287
ReturnBlocks ==
    /\ pc = "scan"
    /\ i > Len(Headings)
    /\ pc' = "collected"
    /\ UNCHANGED collectVars

----------------------------------------------------------------------------
(* main.                                                                   *)
(*   pc = "start": a run begins; "done": it returned; "aborted": an        *)
(*   exception left it.  file is the JSON file of DATA_DIR (<<>> when it   *)
(*   does not exist), excel the Excel models, regen what this run did to   *)
(*   them, now the clock.                                                  *)

FonteUrl == [host |-> "med.estrategia.com", path |-> "/portal/concorrencia/"]
\* resp.url of line 384, after a redirect
RedirectedUrl == [host |-> "www.med.estrategia.com", path |-> "/portal/concorrencia/"]

\* dt.isoformat() and dt.strftime("%d/%m/%Y %H:%M")
isoformat(t) == <<t \div TicksPerMinute, t % TicksPerMinute>>
strftime_br(t) == <<t \div TicksPerMinute>>

SortedBlock(b) ==
    << <<"columns", b.columns>>, <<"rows", b.rows>>, <<"titulo", b.titulo>> >>

\* json.dumps(data, ensure_ascii=False, sort_keys=True)
json_dumps_sorted(data) ==
    << <<"fonte_url", data.fonte_url>>,
       <<"tabelas", [k \in 1..Len(data.tabelas) |-> SortedBlock(data.tabelas[k])]>>,
       <<"updated_at_br", data.updated_at_br>>,
       <<"updated_at_iso", data.updated_at_iso>> >>

\* the digest, taken as injective
md5(text) == <<"md5", text>>

json_hash(data) == md5(json_dumps_sorted(data))

NoPayload ==
    [fonte_url |-> FonteUrl, updated_at_iso |-> <<0, 0>>, updated_at_br |-> <<0>>,
     tabelas |-> <<>>]

NoExcel == [kind |-> "none", tabelas |-> <<>>]

\* lines 371-386, the page is there: the WP API content, or the public HTML
FetchTop ==
    /\ pc = "start"
    /\ base_url' \in {FonteUrl, RedirectedUrl}
    /\ pc' = "scan"
    /\ i' = 1
    /\ results' = <<>>
    /\ origin' = <<>>
    /\ failed' = {}
    /\ titulo' = <<>>
    /\ found_table' = <<>>
    /\ button_link' = <<>>
    /\ resp' = <<>>
    /\ deep_blocks' = <<>>
    /\ UNCHANGED <<soup, mainVars>>

\* lines 381-382: neither the WP API nor the public page answers
FetchTopFails ==
    /\ pc = "start"
    /\ pc' = "aborted"
    /\ UNCHANGED <<collectVars, mainVars>>

\* lines 387-444
Finish ==
    /\ pc = "collected"
    /\ LET p == [fonte_url |-> FonteUrl,
                 updated_at_iso |-> isoformat(now),
                 updated_at_br |-> strftime_br(now),
                 tabelas |-> results]
           oh == IF file # <<>> THEN <<json_hash(file[1])>> ELSE <<>>
           nh == json_hash(p)
       IN  /\ payload' = p
           /\ old_payload' = file
           /\ old_hash' = oh
           /\ new_hash' = nh
           /\ file' = <<p>>
           /\ IF Len(results) = 0
              THEN /\ excel' = [kind |-> "placeholder", tabelas |-> <<>>]
                   /\ regen' = "placeholder"
              ELSE IF oh # <<nh>>
                   THEN /\ excel' = [kind |-> "models", tabelas |-> results]
                        /\ regen' = "generated"
                   ELSE /\ excel' = excel
                        /\ regen' = "none"
    /\ pc' = "done"
    /\ UNCHANGED <<collectVars, run, now>>

\* the scheduler starts the script again, later: a new process, whose locals
\* are fresh; the files stay
NextRun ==
    /\ pc \in {"done", "aborted"}
    /\ run < MaxRuns
    /\ run' = run + 1
    /\ now' = now + 1
    /\ pc' = "start"
    /\ i' = 0
    /\ results' = <<>>
    /\ origin' = <<>>
    /\ failed' = {}
    /\ titulo' = <<>>
    /\ found_table' = <<>>
    /\ button_link' = <<>>
    /\ resp' = <<>>
    /\ deep_blocks' = <<>>
    /\ old_payload' = <<>>
    /\ payload' = NoPayload
    /\ old_hash' = <<>>
    /\ new_hash' = json_hash(NoPayload)
    /\ regen' = "none"
    /\ UNCHANGED <<inputVars, file, excel>>

----------------------------------------------------------------------------
(* Initial states.                                                         *)

CollectIdle ==
    /\ soup = <<>>
    /\ base_url = FonteUrl
    /\ pc = "idle"
    /\ i = 0
    /\ NoLocals
    /\ results = <<>>
    /\ origin = <<>>
    /\ failed = {}

MainIdle ==
    /\ run = 0
    /\ now = 0
    /\ file = <<>>
    /\ old_payload = <<>>
    /\ payload = NoPayload
    /\ old_hash = <<>>
    /\ new_hash = json_hash(NoPayload)
    /\ regen = "none"
    /\ excel = NoExcel

InitCollect ==
    /\ soup \in CollectDocs
    /\ base_url \in {FonteUrl, RedirectedUrl}
    /\ pc = "scan"
    /\ i = 1
    /\ NoLocals
    /\ results = <<>>
    /\ origin = <<>>
    /\ failed = {}

InitMain ==
    /\ soup \in RunDocs
    /\ base_url = FonteUrl
    /\ pc = "start"
    /\ i = 0
    /\ NoLocals
    /\ results = <<>>
    /\ origin = <<>>
    /\ failed = {}
    /\ run = 1
    /\ now = 0
    /\ file = <<>>
    /\ old_payload = <<>>
    /\ payload = NoPayload
    /\ old_hash = <<>>
    /\ new_hash = json_hash(NoPayload)
    /\ regen = "none"
    /\ excel = NoExcel

----------------------------------------------------------------------------
(* Specifications.                                                         *)

\* parse_html_table on every raw table
NextTable == ParseTable /\ UNCHANGED <<titleVars, pc, collectVars, mainVars>>

InitTableSpec == InitTable /\ TitleIdle /\ CollectIdle /\ MainIdle

SpecTable == InitTableSpec /\ [][NextTable]_vars

\* prefix_titles_if_needed, applied twice
NextTitle ==
    \/ Reconcile /\ UNCHANGED <<tableVars, pc, collectVars, mainVars>>
    \/ ReconcileAgain /\ UNCHANGED <<tableVars, pc, collectVars, mainVars>>

InitTitleSpec == InitTitle /\ TableIdle /\ CollectIdle /\ MainIdle

SpecTitle == InitTitleSpec /\ [][NextTitle]_vars

\* collect_blocks_from_soup on every document
NextCollect ==
    \/ ScanHeading /\ UNCHANGED <<tableVars, titleVars, mainVars>>
    \/ FollowButton /\ UNCHANGED <<tableVars, titleVars, mainVars>>
    \/ UseLocal /\ UNCHANGED <<tableVars, titleVars, mainVars>>
    \/ ReturnBlocks /\ UNCHANGED <<tableVars, titleVars, mainVars>>

InitCollectSpec == InitCollect /\ TableIdle /\ TitleIdle /\ MainIdle

SpecCollect == InitCollectSpec /\ [][NextCollect]_vars

\* runs of main, one after the other
Next ==
    \/ FetchTop /\ UNCHANGED <<tableVars, titleVars>>
    \/ FetchTopFails /\ UNCHANGED <<tableVars, titleVars>>
    \/ ScanHeading /\ UNCHANGED <<tableVars, titleVars, mainVars>>
    \/ FollowButton /\ UNCHANGED <<tableVars, titleVars, mainVars>>
    \/ UseLocal /\ UNCHANGED <<tableVars, titleVars, mainVars>>
    \/ ReturnBlocks /\ UNCHANGED <<tableVars, titleVars, mainVars>>
    \/ Finish /\ UNCHANGED <<tableVars, titleVars>>
    \/ NextRun /\ UNCHANGED <<tableVars, titleVars>>

Init == InitMain /\ TableIdle /\ TitleIdle

Spec == Init /\ [][Next]_vars

----------------------------------------------------------------------------
(* Properties of parse_html_table, under SpecTable.                        *)

\* the texts of the rows that hold at least one data-kind cell
DataRows(trs) == Texts2(SelectSeq(trs, HasTd))

ColNames(n) == [k \in 1..n |-> ColName(k)]

\* no <thead>, and a first <tr> that holds no header-kind cell
NoHeaderAtAll(t) == t.thead = <<>> /\ t.trs # <<>> /\ ~HasTh(t.trs[1])

\* C5: for every table the normalizer produces, no row of `rows` is
\* element-wise equal to `columns`.
C5_NoRowEqualsColumns ==
    tpc = "parsed" => \A k \in 1..Len(rows) : rows[k] # columns

\* C8 as stated: without a header region and without a header-like first
\* row, every row (the first included) is kept in `rows` and `columns` is
\* Col1..ColN, N the longest row's length.
C8_FirstRowNeverPromoted ==
    (tpc = "parsed" /\ NoHeaderAtAll(table_tag)) =>
        /\ rows = DataRows(table_tag.trs)
        /\ rows # <<>> => columns = ColNames(MaxRowLen(rows))

\* C8 amended: without a header region and with a first row that holds no
\* header-kind cell, a first row with at least one cell is promoted to
\* `columns` and left out of `rows`, which holds every later row with a
\* data-kind cell; `columns` is Col1..ColN (N the longest kept row's length)
\* only when the first row has no cell and some row is kept.
C8_FirstRowPromoted ==
    (tpc = "parsed" /\ NoHeaderAtAll(table_tag)) =>
        /\ rows = DataRows(Tail(table_tag.trs))
        /\ columns = IF table_tag.trs[1] # <<>> THEN Texts(table_tag.trs[1])
                     ELSE IF rows = <<>> THEN <<>>
                     ELSE ColNames(MaxRowLen(rows))

C8_Witness ==
    /\ tpc = "parsed"
    /\ NoHeaderAtAll(table_tag)
    /\ table_tag.trs[1] = <<Td(CellB)>>
    /\ columns = <<CellB>>
    /\ rows = << <<CellA, CellB>> >>

----------------------------------------------------------------------------
(* Properties of prefix_titles_if_needed, under SpecTitle.                 *)

\* C6: reconciling the already reconciled titles a second time with the
\* same parent title yields the same titles.
C6_Idempotent ==
    rpc = "twice" =>
        /\ Len(out2) = Len(out)
        /\ \A k \in 1..Len(out) : out2[k].titulo = out[k].titulo

\* a block whose title did not contain the parent was prefixed, then reconciled again
C6_Witness ==
    /\ rpc = "twice"
    /\ \E k \in 1..Len(blocks) :
          /\ blocks[k].titulo # <<>>
          /\ ~Contains(Lower(blocks[k].titulo), Lower(parent_title))
          /\ Len(out[k].titulo) > Len(parent_title) + 2

----------------------------------------------------------------------------
(* Properties of collect_blocks_from_soup, under SpecCollect.              *)

\* a heading with a title has been scanned: the locals are those of heading Scanned
HasScanned == (pc = "emit" \/ i > 1) /\ titulo # <<>>
Scanned == IF pc = "emit" THEN i ELSE i - 1

\* the first table of the span that starts at node k, direct or nested
RECURSIVE FirstTableInSpan(_, _)
FirstTableInSpan(nodes, k) ==
    IF k > Len(nodes) \/ nodes[k].tag \in {"h2", "h3"} THEN <<>>
    ELSE IF IsTag(nodes[k]) /\ nodes[k].table # <<>> THEN nodes[k].table
    ELSE FirstTableInSpan(nodes, k + 1)

\* the anchors of a node in document order: the node itself, then those nested
AnchorsOf(n) == n.attrs \o n.links

\* the destination of the first accepted anchor of the span that starts at node k
RECURSIVE FirstControlInSpan(_, _, _)
FirstControlInSpan(nodes, k, base) ==
    IF k > Len(nodes) \/ nodes[k].tag \in {"h2", "h3"} THEN <<>>
    ELSE IF IsTag(nodes[k]) /\ FirstButton(AnchorsOf(nodes[k]), base) # <<>>
         THEN FirstButton(AnchorsOf(nodes[k]), base)
         ELSE FirstControlInSpan(nodes, k + 1, base)

\* C9: the local table of a section is the first table node of the
\* heading's span, direct or nested; a later table never replaces it.
C9_FirstTableIsLocal ==
    HasScanned => found_table = FirstTableInSpan(soup, Headings[Scanned] + 1)

\* C10: the navigation target of a section is the resolved destination of
\* the first accepted anchor of the heading's span; a later accepted anchor
\* never replaces it.
C10_FirstControlIsTarget ==
    HasScanned =>
        button_link = FirstControlInSpan(soup, Headings[Scanned] + 1, base_url)

\* the promotional marker of the blocklist, matched case-insensitively
BlocklistPhrase == <<"p">>

Blocklisted(h) ==
    Contains(Lower(sanitize_title(text_of(soup[Headings[h]].text))), BlocklistPhrase)

\* C4: a heading whose normalized text contains the blocklisted phrase
\* contributes no table, and its section is dropped before any table parsing
\* or detail fetch.
C4_BlocklistedContributesNothing ==
    /\ \A k \in 1..Len(origin) : ~Blocklisted(origin[k])
    /\ pc = "emit" => ~Blocklisted(i)

\* what the detail expander returned for the response
Expanded(response) ==
    IF response = FetchError THEN <<>> ELSE DetailBlocks(response)

\* the local table of the section, as a block, whatever its rows
LocalTable(title, tbl) ==
    LET r == parse_html_table(tbl) IN
    <<[titulo |-> title, columns |-> r.columns, rows |-> r.rows]>>

\* C2 as stated: every section with a navigation target, with or without a
\* local table, has its target expanded; a non-empty expansion is appended
\* in place of the local table, an empty one leaves the local table, when
\* present, to be appended.
C2_EveryTargetExpanded ==
    [][ /\ (ScanHeading /\ titulo' # <<>> /\ button_link' # <<>>) => pc' = "emit"
        /\ (pc = "emit" /\ button_link # <<>> /\ pc' # "emit") =>
              /\ deep_blocks' = Expanded(resp'[1])
              /\ results' = results \o
                    (IF deep_blocks' # <<>>
                     THEN prefix_titles_if_needed(titulo, deep_blocks')
                     ELSE LocalTable(titulo, found_table[1])) ]_vars

\* C2 amended: for every section with a navigation target and a table node,
\* a non-empty expansion is appended (titles reconciled) and the local table
\* is not; an empty expansion leaves the local table to be appended when it
\* has at least one row.
C2_TargetWithTableExpanded ==
    [][ (pc = "emit" /\ button_link # <<>> /\ pc' # "emit") =>
              /\ pc' = "scan"
              /\ deep_blocks' = Expanded(resp'[1])
              /\ results' = results \o
                    (IF deep_blocks' # <<>>
                     THEN prefix_titles_if_needed(titulo, deep_blocks')
                     ELSE LocalBlocks(titulo, found_table[1])) ]_vars

\* the detail page gave two tables, which stand where the section's own table,
\* which has rows, would have been
C2_Witness ==
    /\ pc = "scan"
    /\ button_link # <<>>
    /\ found_table # <<>>
    /\ LocalBlocks(titulo, found_table[1]) # <<>>
    /\ Len(deep_blocks) = 2
    /\ results = prefix_titles_if_needed(titulo, deep_blocks)
    /\ results[1].titulo = <<"H", " ", EmDash, " ", "X">>
    /\ results[2].titulo = <<"h", " ", "Z">>

----------------------------------------------------------------------------
(* Properties of main, under Spec.                                         *)

\* C3: a failure of a section's detail page never aborts the run: the
\* expansion counts as empty, the section falls back to its local table and
\* the scan goes on with the next heading.
C3_FailureFallsBack ==
    [][ /\ (pc = "emit" /\ button_link # <<>> /\ resp' = <<FetchError>>) =>
              /\ pc' = "scan"
              /\ i' = i + 1
              /\ deep_blocks' = <<>>
              /\ results' = results \o LocalBlocks(titulo, found_table[1])
        /\ (pc' = "aborted" /\ pc # "aborted") => pc = "start" ]_vars

\* a run is done in which a detail page failed, its section gave its local
\* table and a later section gave a table too
C3_Witness ==
    /\ pc = "done"
    /\ \E k \in failed :
          /\ \E j \in 1..Len(origin) : origin[j] = k
          /\ \E j \in 1..Len(origin) : origin[j] > k

\* C1: the fingerprints of two datasets with equal tables are equal, though
\* their timestamps differ.
C1_FingerprintIgnoresTimestamp ==
    (pc = "done" /\ old_payload # <<>>
        /\ old_payload[1].tabelas = payload.tabelas) => old_hash = <<new_hash>>

\* C7: the Excel models are regenerated only in a run whose tables differ
\* from those of the previous run's dataset, or that finds no previous one.
C7_RegeneratedOnlyOnChange ==
    (pc = "done" /\ regen = "generated") =>
        \/ old_payload = <<>>
        \/ old_payload[1].tabelas # payload.tabelas

====
